---- MODULE Spec2Model ----
(***************************************************************************)
(* State-machine model of the zeva agent extension gateway:                *)
(*   - the OAuth gateway   (GET /auth/authorization, GET /auth/callback),  *)
(*   - the chat proxy      (POST /agent, and the older POST / of index.js).*)
(* JavaScript values are tagged records [t, v]; strings are sequences of   *)
(* one-character strings so that String.prototype.trim can be computed.    *)
(***************************************************************************)
EXTENDS Integers, Sequences, FiniteSets

(***************************************************************************)
(* Bounds of the model.                                                    *)
(***************************************************************************)
\* longest client `messages` array that is enumerated
MaxMsgs == 2
\* most blanks put before / after the core of a model name
MaxPad == 1
\* most body chunks an upstream response yields
MaxChunks == 2
\* longest item list the retrieval backend returns
MaxDocs == 3

(***************************************************************************)
(* JavaScript values.                                                      *)
(***************************************************************************)
Undef == [t |-> "undef", v |-> <<>>]
Null == [t |-> "null", v |-> <<>>]
Str(s) == [t |-> "str", v |-> s]
Num == [t |-> "num", v |-> <<"7">>]
Bool(b) == [t |-> "bool", v |-> <<b>>]
Arr(s) == [t |-> "arr", v |-> s]
\* an object with a single interesting property, `model`
Obj(m) == [t |-> "obj", v |-> <<m>>]

\* !x of JavaScript, for the values above
Falsy(x) ==
  \/ x.t \in {"undef", "null"}
  \/ x.t = "str" /\ x.v = <<>>
  \/ x.t = "bool" /\ x.v = <<"false">>

\* a || b of JavaScript
OrElse(a, b) == IF Falsy(a) THEN b ELSE a

\* a === b of JavaScript: primitives by value, objects and arrays by identity
\* (two values parsed from different places are never the same object)
StrictEq(a, b) ==
  /\ a.t = b.t
  /\ a.t \in {"undef", "null", "str", "num", "bool"}
  /\ a.v = b.v

(***************************************************************************)
(* OAuth gateway.                                                          *)
(***************************************************************************)
\* values Math.random().toString(36).substring(2, 15) can produce
StateTokens == {Str(<<"s1">>), Str(<<"s2">>)}
\* what the query parser can give for ?code= / ?state=
QueryValues == {Undef, Str(<<>>), Arr(<<"s1">>)} \cup StateTokens
AccessTokens == {Str(<<"t1">>), Str(<<"t2">>)}
\* what tokenRes.json() can give for access_token / error
TokenFields == {Undef, Str(<<>>)} \cup AccessTokens
ErrorFields == {Undef, Str(<<"bad_verification_code">>)}
\* outcome of the fetch of the token endpoint followed by tokenRes.json()
ExchangeOutcomes ==
  [kind : {"json"}, access_token : TokenFields, error : ErrorFields]
    \cup {[kind |-> "throws", access_token |-> Undef, error |-> Undef]}

VARIABLES
  cookies,        \* the browser's cookie jar for this service (one session)
  cb,             \* the callback request being handled, or the last one handled
  consumedState,  \* history: state value a processed callback matched, not re-issued since
  req,            \* the chat request being handled, or the last one handled
  outbound,       \* body of the call to the completion endpoint for req
  relay,          \* the upstream response of req and the pipe to its caller
  parked,         \* a second chat request, suspended at an await
  q,              \* the /query request being handled, or the last one handled
  seen            \* history: the /query methods handled so far

oauthVars == <<cookies, cb, consumedState>>
queryVars == <<q, seen>>
vars == <<cookies, cb, consumedState, req, outbound, relay, parked, q, seen>>

NoExchange == [kind |-> "none", access_token |-> Undef, error |-> Undef]

IdleCallback ==
  [pc |-> "idle", code |-> Undef, state |-> Undef, savedState |-> Undef,
   status |-> 0, exchangeCalls |-> 0, exchange |-> NoExchange,
   setToken |-> Undef, replay |-> FALSE]

\* line 59: !code || !state || state !== savedState
InvalidCallbackNoStateCheck(code, state, savedState) == Falsy(code) \/ Falsy(state)
InvalidCallback(code, state, savedState) ==
  Falsy(code) \/ Falsy(state) \/ ~StrictEq(state, savedState)

\* line 75-76: destructuring of the JSON, then `error || !access_token`
ExchangeFailedIgnoringError(out) == out.kind = "throws" \/ Falsy(out.access_token)
ExchangeFailed(out) ==
  \/ out.kind = "throws"
  \/ ~Falsy(out.error)
  \/ Falsy(out.access_token)

\* GET /auth/authorization
BeginLogin ==
  \E state \in StateTokens :
    /\ cookies' = [cookies EXCEPT !.oauth_state = state]
    /\ consumedState' = IF state = consumedState THEN Undef ELSE consumedState
    /\ UNCHANGED <<cb, req, outbound, relay, parked, queryVars>>

\* GET /auth/callback up to the first await
CallbackStart ==
  /\ cb.pc \in {"idle", "done"}
  /\ \E code \in QueryValues, state \in QueryValues :
       LET savedState == cookies.oauth_state
           base == [IdleCallback EXCEPT !.code = code, !.state = state,
                                        !.savedState = savedState,
                                        !.replay = (consumedState # Undef /\ state = consumedState)]
       IN  IF InvalidCallback(code, state, savedState)
           THEN /\ cb' = [base EXCEPT !.pc = "done", !.status = 400]
                /\ UNCHANGED consumedState
           ELSE /\ cb' = [base EXCEPT !.pc = "awaitExchange", !.exchangeCalls = 1]
                /\ consumedState' = state
  /\ UNCHANGED <<cookies, req, outbound, relay, parked, queryVars>>

\* GET /auth/callback from the return of the token exchange to the response
CallbackExchangeReturn ==
  /\ cb.pc = "awaitExchange"
  /\ \E out \in ExchangeOutcomes :
       IF ExchangeFailed(out)
       THEN /\ cb' = [cb EXCEPT !.pc = "done", !.status = 500, !.exchange = out]
            /\ UNCHANGED cookies
       ELSE /\ cb' = [cb EXCEPT !.pc = "done", !.status = 302, !.exchange = out,
                                !.setToken = out.access_token]
            /\ cookies' = [cookies EXCEPT !.github_token = out.access_token]
  /\ UNCHANGED <<consumedState, req, outbound, relay, parked, queryVars>>

(***************************************************************************)
(* Chat proxy: values a request can carry.                                 *)
(***************************************************************************)
\* process.env.DEFAULT_MODEL with its default (line 16)
DEFAULT_MODEL == Str(<<"g", "p", "t", "-", "4">>)
\* the project context (lines 26-36): a piece of text, here with the blank a
\* context file ends with
CONTEXT == <<"Project Apollo", " ">>

Pad(n) == [i \in 1..n |-> " "]
\* `core` with up to MaxPad blanks before and after it
Padded(core) == {Pad(i) \o core \o Pad(j) : i, j \in 0..MaxPad}

\* String.prototype.trim, for the blank " "
RECURSIVE TrimStart(_)
TrimStart(s) ==
  IF s # <<>> /\ Head(s) = " " THEN TrimStart(Tail(s)) ELSE s
RECURSIVE TrimEnd(_)
TrimEnd(s) ==
  IF s # <<>> /\ s[Len(s)] = " " THEN TrimEnd(SubSeq(s, 1, Len(s) - 1)) ELSE s
Trim(s) == TrimEnd(TrimStart(s))

\* the value of an expression that throws a TypeError
Throws == [t |-> "throws", v |-> <<>>]

\* x?.trim(): undefined for null and undefined, the trimmed string for a
\* string, a TypeError for anything else (x.trim is not a function)
OptTrim(x) ==
  IF x.t \in {"undef", "null"} THEN Undef
  ELSE IF x.t = "str" THEN Str(Trim(x.v))
  ELSE Throws

\* config?.model: undefined for null and undefined, the property for an
\* object, undefined for a primitive or an array (they have no `model`)
OptModelOf(config) ==
  IF config.t = "obj" THEN config.v[1] ELSE Undef

\* line 116: bodyModel?.trim() || config?.model?.trim() || DEFAULT_MODEL
selectedModelBodyLast(bodyModel, config) ==
  LET a == OptTrim(OptModelOf(config))
  IN  IF a = Throws THEN Throws
      ELSE IF ~Falsy(a) THEN a
      ELSE LET b == OptTrim(bodyModel)
           IN  IF b = Throws THEN Throws
               ELSE IF ~Falsy(b) THEN b
               ELSE DEFAULT_MODEL
selectedModel(bodyModel, config) ==
  LET a == OptTrim(bodyModel)
  IN  IF a = Throws THEN Throws
      ELSE IF ~Falsy(a) THEN a
      ELSE LET b == OptTrim(OptModelOf(config))
           IN  IF b = Throws THEN Throws
               ELSE IF ~Falsy(b) THEN b
               ELSE DEFAULT_MODEL

\* Array.isArray
IsArrayOrObject(x) == x.t \in {"arr", "obj"}
IsNonEmptyArray(x) == x.t = "arr" /\ x.v # <<>>
IsArray(x) == x.t = "arr"

\* entries of a `messages` array: role-tagged text
ClientMessage(text) == [role |-> "user", content |-> <<text>>]
ClientMessages == {ClientMessage("m1"), ClientMessage("m2")}
SeqsUpTo(S, n) == UNION {[1..k -> S] : k \in 0..n}

\* lines 119-123
systemPromptsNoDomain(login) ==
  << [role |-> "system", content |-> <<"Start every response with: @", login>>],
     [role |-> "system", content |-> <<"Project-specific context:\n">> \o Trim(CONTEXT)] >>
systemPrompts(login) ==
  << [role |-> "system", content |-> <<"Start every response with: @", login>>],
     [role |-> "system",
      content |-> <<"You are an expert assistant specializing in distributed systems and payments processing.">>],
     [role |-> "system", content |-> <<"Project-specific context:\n">> \o Trim(CONTEXT)] >>

\* src/index.js lines 45-58
rootSystemPrompts(login) ==
  << [role |-> "system",
      content |-> <<"Start every response with the user's handle: @", login, ".">>],
     [role |-> "system",
      content |-> <<"You are an expert assistant specializing in distributed systems and payments processing.">>],
     [role |-> "system", content |-> <<"Project-specific context:\n">> \o Trim(CONTEXT)] >>

\* lines 126-131: { ...req.body, model, stream: true, messages: [...] }
outboundAllowListed(body, model, login) ==
  [body EXCEPT !.model = model,
               !.stream = body.stream,
               !.temperature = Undef,
               !.messages = Arr(systemPrompts(login) \o body.messages.v)]
outboundOf(body, model, login) ==
  [body EXCEPT !.model = model,
               !.stream = Bool("true"),
               !.messages = Arr(systemPrompts(login) \o body.messages.v)]

\* src/index.js lines 66-72: { stream: true, messages: [...] }
rootOutboundOf(body, login) ==
  [messages |-> Arr(rootSystemPrompts(login) \o body.messages.v),
   model |-> Undef, config |-> Undef,
   stream |-> Bool("true"), temperature |-> Undef]

\* what req.cookies['github_token'] and req.get('X-GitHub-Token') can give
CookieTokens == {Undef, Str(<<>>), Str(<<"t1">>)}
HeaderTokens == {Undef, Str(<<"t2">>)}
\* line 92: cookie || header, a `const` of the handler's invocation
tokenOfModuleLevel(cookie, header) ==
  IF parked.req.token # Undef THEN parked.req.token ELSE OrElse(cookie, header)
tokenOf(cookie, header) == OrElse(cookie, header)
\* line 93 (src/index.js line 28): !token
missingTokenOnlyNull(token) == token.t = "null"
missingToken(token) == Falsy(token)

MessagesValues ==
  {Undef, Null, Num, Str(<<"h", "i">>), Obj(Undef)}
    \cup {Arr(s) : s \in SeqsUpTo(ClientMessages, MaxMsgs)}
BodyModelValues ==
  {Undef, Null, Num} \cup {Str(s) : s \in Padded(<<"a">>) \cup Padded(<<>>)}
ConfigModelValues ==
  {Undef, Num, Str(<<" ">>)} \cup {Str(s) : s \in Padded(<<"b">>)}
ConfigValues ==
  {Undef, Null, Str(<<"b">>)} \cup {Obj(m) : m \in ConfigModelValues}
StreamValues == {Undef, Bool("false")}
TemperatureValues == {Undef, Num}

\* JSON bodies of POST /agent
Bodies ==
  [messages : MessagesValues, model : BodyModelValues, config : ConfigValues,
   stream : StreamValues, temperature : TemperatureValues]
\* JSON bodies of POST / (src/index.js reads only `messages`)
RootBodies ==
  [messages : MessagesValues, model : {Undef, Str(<<"a">>)}, config : {Undef},
   stream : StreamValues, temperature : TemperatureValues]

Logins == {"alice", "bob"}
\* outcome of octokit.request('GET /user'): a login, a non-2xx answer
\* (RequestError) or a transport error
IdentityOutcomes ==
  [kind : {"ok"}, login : Logins]
    \cup {[kind |-> "status", login |-> ""], [kind |-> "network", login |-> ""]}
identityFailedOnlyNetwork(out) == out.kind = "network"
identityFailed(out) == out.kind # "ok"

\* outcome of the fetch of the completion endpoint: an HTTP response with a
\* status, or a transport error
UpstreamStatuses == {200, 429}
\* apiRes.headers as it iterates: [name, value] pairs, names in lower case
UpstreamHeaders ==
  { << <<"x-request-id", "r1">> >>,
    << <<"content-type", "application/json">>, <<"x-request-id", "r1">> >> }
FetchOutcomes ==
  [kind : {"response"}, status : UpstreamStatuses, headers : UpstreamHeaders]
    \cup {[kind |-> "network", status |-> 0, headers |-> <<>>]}

\* the name under which http.ServerResponse.setHeader files a header
LowerCase(name) == IF name = "Content-Type" THEN "content-type" ELSE name

\* lines 145-148: the object given to writeHead, as [key, value] in key order
headerObjectDefaultLast(apiHeaders) ==
  apiHeaders \o << <<"Content-Type", "text/event-stream">> >>
headerObject(apiHeaders) ==
  << <<"Content-Type", "text/event-stream">> >> \o apiHeaders

\* res.writeHead(status, obj): each key is set in turn, a later key replaces
\* an earlier one of the same name whatever its case
RECURSIVE writeHead(_, _)
writeHead(set, obj) ==
  IF obj = <<>> THEN set
  ELSE LET name == LowerCase(Head(obj)[1])
       IN  writeHead({h \in set : h[1] # name} \cup {<<name, Head(obj)[2]>>},
                     Tail(obj))

\* body chunks the upstream stream can yield
Chunks == {"c1", "c2"}

NoRelay ==
  [up |-> "none", apiStatus |-> 0, apiHeaders |-> <<>>, headers |-> {},
   received |-> <<>>, sent |-> <<>>, piped |-> FALSE, res |-> "none",
   caller |-> "connected", uncaught |-> FALSE]

\* lines 145-149: the response head is written and the body piped
Piped(out) ==
  [NoRelay EXCEPT !.up = "open", !.apiStatus = out.status,
                  !.apiHeaders = out.headers,
                  !.headers = writeHead({}, headerObject(out.headers)),
                  !.piped = TRUE, !.res = "open"]

NoBody ==
  [messages |-> Undef, model |-> Undef, config |-> Undef,
   stream |-> Undef, temperature |-> Undef]

IdleRequest ==
  [pc |-> "idle", route |-> "none", cookie |-> Undef, header |-> Undef,
   token |-> Undef, body |-> NoBody, login |-> "", model |-> Undef,
   status |-> 0, relayed |-> FALSE,
   identityCalls |-> 0, identityToken |-> Undef, identity |-> "none",
   completionCalls |-> 0, bearer |-> Undef, fetch |-> "none"]

(***************************************************************************)
(* Chat proxy: POST /agent (src/unnamed/part_000).                         *)
(***************************************************************************)
\* a request as express hands it to the handler of its route
Received(route, cookie, header, body) ==
  [IdleRequest EXCEPT !.pc = "received", !.route = route, !.cookie = cookie,
                      !.header = header, !.body = body]

\* lines 91-95 and up to the await of line 101
AgentStart ==
  /\ req.pc = "received"
  /\ req.route = "agent"
  /\ LET token == tokenOf(req.cookie, req.header)
     IN  IF missingToken(token)
         THEN req' = [req EXCEPT !.pc = "done", !.status = 401]
         ELSE req' = [req EXCEPT !.pc = "awaitIdentity", !.token = token,
                                 !.identityCalls = 1, !.identityToken = token]
  /\ UNCHANGED <<oauthVars, outbound, relay, parked, queryVars>>

\* lines 101-142: from the return of GET /user to the await of the fetch
AgentIdentityReturn ==
  /\ req.pc = "awaitIdentity"
  /\ req.route = "agent"
  /\ \E out \in IdentityOutcomes :
       IF identityFailed(out)
       THEN /\ req' = [req EXCEPT !.pc = "done", !.status = 401,
                                 !.identity = out.kind]
            /\ UNCHANGED outbound
       ELSE LET r == [req EXCEPT !.login = out.login, !.identity = out.kind]
                model == selectedModel(req.body.model, req.body.config)
            IN  IF ~IsArray(req.body.messages)
                THEN /\ req' = [r EXCEPT !.pc = "done", !.status = 400]
                     /\ UNCHANGED outbound
                ELSE IF model = Throws
                THEN \* TypeError outside any try: the handler's promise rejects
                     /\ req' = [r EXCEPT !.pc = "threw"]
                     /\ UNCHANGED outbound
                ELSE /\ req' = [r EXCEPT !.pc = "awaitFetch", !.model = model,
                                         !.completionCalls = 1,
                                         !.bearer = req.token]
                     /\ outbound' = outboundOf(req.body, model, out.login)
  /\ UNCHANGED <<oauthVars, relay, parked, queryVars>>

\* lines 135-153: from the return of the fetch to the response head
AgentFetchReturn ==
  /\ req.pc = "awaitFetch"
  /\ req.route = "agent"
  /\ \E out \in FetchOutcomes :
       IF out.kind = "network"
       THEN /\ req' = [req EXCEPT !.pc = "done", !.status = 500,
                                 !.fetch = out.kind]
            /\ UNCHANGED relay
       ELSE /\ req' = [req EXCEPT !.pc = "done", !.status = out.status,
                                 !.relayed = TRUE, !.fetch = out.kind]
            /\ relay' = Piped(out)
  /\ UNCHANGED <<oauthVars, outbound, parked, queryVars>>

(***************************************************************************)
(* Chat proxy: POST / (src/index.js).                                      *)
(***************************************************************************)
\* src/index.js lines 26-36
RootStart ==
  /\ req.pc = "received"
  /\ req.route = "root"
  /\ LET token == req.header
     IN  IF missingToken(token)
         THEN req' = [req EXCEPT !.pc = "done", !.status = 401]
         ELSE req' = [req EXCEPT !.pc = "awaitIdentity", !.token = token,
                                 !.identityCalls = 1, !.identityToken = token]
  /\ UNCHANGED <<oauthVars, outbound, relay, parked, queryVars>>

\* src/index.js lines 36-85
RootIdentityReturn ==
  /\ req.pc = "awaitIdentity"
  /\ req.route = "root"
  /\ \E out \in IdentityOutcomes :
       IF identityFailed(out)
       THEN /\ req' = [req EXCEPT !.pc = "done", !.status = 401,
                                 !.identity = out.kind]
            /\ UNCHANGED outbound
       ELSE LET r == [req EXCEPT !.login = out.login, !.identity = out.kind]
            IN  IF ~IsArray(req.body.messages)
                THEN /\ req' = [r EXCEPT !.pc = "done", !.status = 400]
                     /\ UNCHANGED outbound
                ELSE /\ req' = [r EXCEPT !.pc = "awaitFetch", !.completionCalls = 1,
                                         !.bearer = req.token]
                     /\ outbound' = rootOutboundOf(req.body, out.login)
  /\ UNCHANGED <<oauthVars, relay, parked, queryVars>>

\* src/index.js lines 75-92: the fetch is in no try block
RootFetchReturn ==
  /\ req.pc = "awaitFetch"
  /\ req.route = "root"
  /\ \E out \in FetchOutcomes :
       IF out.kind = "network"
       THEN /\ req' = [req EXCEPT !.pc = "threw", !.fetch = out.kind]
            /\ UNCHANGED relay
       ELSE /\ req' = [req EXCEPT !.pc = "done", !.status = out.status,
                                 !.relayed = TRUE, !.fetch = out.kind]
            /\ relay' = Piped(out)
  /\ UNCHANGED <<oauthVars, outbound, parked, queryVars>>

(***************************************************************************)
(* Chat proxy: Readable.from(apiRes.body).pipe(res), line 149.             *)
(* The handler has returned; the stream events below run on the event loop.*)
(***************************************************************************)
Relaying == relay.up # "none" /\ ~relay.uncaught

\* the chunk the pipe's 'data' listener hands to res.write next
firstChunk(r) == r.received[1]
nextChunk(r) == r.received[Len(r.sent) + 1]

\* the upstream stream yields a chunk
UpstreamChunk ==
  /\ Relaying
  /\ relay.up = "open"
  /\ Len(relay.received) < MaxChunks
  /\ \E c \in Chunks : relay' = [relay EXCEPT !.received = Append(@, c)]
  /\ UNCHANGED <<oauthVars, req, outbound, parked, queryVars>>

\* pipe: 'data' on the source, res.write(chunk)
PipeChunk ==
  /\ Relaying
  /\ relay.piped
  /\ relay.res = "open"
  /\ relay.caller = "connected"
  /\ Len(relay.sent) < Len(relay.received)
  /\ relay' = [relay EXCEPT !.sent = Append(@, nextChunk(relay))]
  /\ UNCHANGED <<oauthVars, req, outbound, parked, queryVars>>

\* the upstream stream completes
UpstreamEnd ==
  /\ Relaying
  /\ relay.up = "open"
  /\ relay' = [relay EXCEPT !.up = "ended"]
  /\ UNCHANGED <<oauthVars, req, outbound, parked, queryVars>>

\* pipe: 'end' on the source once its chunks are read, res.end()
PipeEnd ==
  /\ Relaying
  /\ relay.piped
  /\ relay.res = "open"
  /\ relay.caller = "connected"
  /\ relay.up = "ended"
  /\ Len(relay.sent) = Len(relay.received)
  /\ relay' = [relay EXCEPT !.res = "ended", !.piped = FALSE]
  /\ UNCHANGED <<oauthVars, req, outbound, parked, queryVars>>

\* the upstream connection fails after the response head: the source emits
\* 'error'; it has no 'error' listener and pipe does not forward the error,
\* so the error is thrown as an uncaught exception and res is never ended
UpstreamError ==
  /\ Relaying
  /\ relay.up = "open"
  /\ relay' = [relay EXCEPT !.up = "errored", !.uncaught = TRUE]
  /\ UNCHANGED <<oauthVars, req, outbound, parked, queryVars>>

\* the caller's connection closes before the response has ended
ClientClose ==
  /\ Relaying
  /\ relay.res = "open"
  /\ relay.caller = "connected"
  /\ relay' = [relay EXCEPT !.caller = "closed"]
  /\ UNCHANGED <<oauthVars, req, outbound, parked, queryVars>>

\* pipe: 'close' on res, the source is unpiped; nothing destroys the source
PipeOnClose ==
  /\ Relaying
  /\ relay.caller = "closed"
  /\ relay.piped
  /\ relay' = [relay EXCEPT !.piped = FALSE]
  /\ UNCHANGED <<oauthVars, req, outbound, parked, queryVars>>

\* a write to the caller fails (the connection broke): 'error' on res, the
\* source is unpiped; nothing destroys the source
PipeOnError ==
  /\ Relaying
  /\ relay.piped
  /\ relay.res = "open"
  /\ relay.caller = "connected"
  /\ relay' = [relay EXCEPT !.res = "errored", !.caller = "closed",
                            !.piped = FALSE]
  /\ UNCHANGED <<oauthVars, req, outbound, parked, queryVars>>

(***************************************************************************)
(* Tool protocol handler: POST /query (lines 156-229).                     *)
(***************************************************************************)
\* String(x), as a template literal `${x}` computes it
ToString(x) ==
  IF x.t = "undef" THEN <<"undefined">>
  ELSE IF x.t = "null" THEN <<"null">>
  ELSE IF x.t = "obj" THEN <<"[object Object]">>
  ELSE x.v

\* a == b of JavaScript between a request value and a string literal: an
\* array or a number is first converted to a string
LooseEqString(x, name) ==
  x.t \in {"str", "arr", "num"} /\ ToString(x) = <<name>>
\* lines 162, 178, 183, 207: method === 'name'
isMethod(x, name) == StrictEq(x, Str(<<name>>))

\* what the JSON body can give for `method`, `id` and `params`
MethodValues ==
  {Str(<<"initialize">>), Str(<<"notifications/initialized">>),
   Str(<<"tools/list">>), Str(<<"retrieve">>), Str(<<"foo">>),
   Undef, Num, Arr(<<"initialize">>)}
IdValues == {Undef, Num, Str(<<"x">>)}
\* `params`: absent, null, or an object with or without `query`
ParamsValues == {Undef, Null, Obj(Str(<<"q">>)), Obj(Undef)}

EmptyObject == [t |-> "obj", v |-> <<>>]
\* items the retrieval backend can return
Items ==
  { [id |-> Undef, cursor |-> Undef, text |-> Str(<<"x">>), metadata |-> Undef],
    [id |-> Str(<<"a">>), cursor |-> Str(<<"c">>), text |-> Str(<<"y">>),
     metadata |-> Obj(Str(<<"k">>))],
    [id |-> Null, cursor |-> Null, text |-> Str(<<"x">>), metadata |-> Null],
    [id |-> Str(<<>>), cursor |-> Num, text |-> Undef, metadata |-> EmptyObject] }
\* outcome of `await retrieveFromYourIndex(params.query)`: a list of items,
\* or an exception (the function is called at line 208 and defined nowhere
\* in the sources)
BackendOutcomes ==
  [kind : {"docs"}, docs : SeqsUpTo(Items, MaxDocs)]
    \cup {[kind |-> "throws", docs |-> <<>>]}

Digits == <<"0", "1", "2", "3", "4", "5", "6", "7", "8", "9">>
\* `${i}` for an array index i
RECURSIVE IndexString(_)
IndexString(i) ==
  IF i < 10 THEN <<Digits[i + 1]>>
  ELSE IndexString(i \div 10) \o <<Digits[(i % 10) + 1]>>

\* a ?? b of JavaScript
CoalesceFalsy(a, b) == IF Falsy(a) THEN b ELSE a
Coalesce(a, b) == IF a.t \in {"undef", "null"} THEN b ELSE a

\* lines 213-218: docs.map((d, i) => ...), i counting from 0
documentsOf(docs) ==
  [k \in 1..Len(docs) |->
     [id |-> Coalesce(docs[k].id, Str(IndexString(k - 1))),
      cursor |-> Coalesce(docs[k].cursor, Str(IndexString(k - 1))),
      text |-> docs[k].text,
      metadata |-> Coalesce(docs[k].metadata, EmptyObject)]]

\* lines 167-174: the result of `initialize`
initializeResult ==
  [protocolVersion |-> "2025-03-26",
   capabilities |->
     [resources |-> [listChanged |-> FALSE, subscribe |-> FALSE],
      prompts |-> [listChanged |-> FALSE],
      tools |-> [listChanged |-> FALSE],
      logging |-> <<>>],
   serverInfo |-> [name |-> "zeva-mcp-server", version |-> "1.0.0"]]

retrieveTool ==
  [id |-> "retrieve", name |-> "Context Retrieval",
   description |-> "Fetch relevant context snippets for the user's query",
   parameters |->
     [type |-> "object",
      properties |->
        [query |-> [type |-> "string",
                    description |-> "User question to retrieve context for"]],
      required |-> <<"query">>]]

\* lines 188-201: the `tools` of `tools/list`
toolsListAfterHandshake ==
  IF "initialize" \in seen THEN <<retrieveTool>> ELSE <<>>
toolsList == <<retrieveTool>>

NoResult == [t |-> "none", v |-> <<>>]
Result(kind, payload) == [t |-> kind, v |-> <<payload>>]
\* line 227
methodNotFound(method) ==
  Result("error", [code |-> -32601,
                   message |-> <<"Method not found: ">> \o ToString(method)])

\* the object given to res.json: jsonrpc, id and a result or an error
jsonRpcNullId(id, result, error) ==
  [jsonrpc |-> "2.0", id |-> Null, result |-> result, error |-> error]
jsonRpc(id, result, error) ==
  [jsonrpc |-> "2.0", id |-> id, result |-> result, error |-> error]

NoJson == [jsonrpc |-> "", id |-> Undef, result |-> NoResult, error |-> NoResult]

IdleQuery ==
  [pc |-> "idle", method |-> Undef, id |-> Undef, params |-> Undef,
   status |-> 0, hasBody |-> FALSE, body |-> NoJson, responses |-> 0,
   backendCalls |-> 0, docs |-> <<>>]

\* res.json(obj): one response, status 200, with a body
Json(r, obj) ==
  [r EXCEPT !.pc = "done", !.status = 200, !.hasBody = TRUE, !.body = obj,
            !.responses = @ + 1]

\* the methods whose handling is recorded in `seen`
Handshake == {"initialize", "notifications/initialized"}

\* lines 156-208 and 223-228: up to the response, or to the await of the backend
QueryReceive ==
  /\ q.pc \in {"idle", "done", "threw"}
  /\ \E method \in MethodValues, id \in IdValues, params \in ParamsValues :
       LET r == [IdleQuery EXCEPT !.method = method, !.id = id,
                                  !.params = params]
       IN  /\ q' =
                IF isMethod(method, "initialize")
                THEN Json(r, jsonRpc(id, Result("initialize", initializeResult),
                                     NoResult))
                ELSE IF isMethod(method, "notifications/initialized")
                THEN [r EXCEPT !.pc = "done", !.status = 204, !.responses = 1]
                ELSE IF isMethod(method, "tools/list")
                THEN Json(r, jsonRpc(id, Result("tools", toolsList), NoResult))
                ELSE IF isMethod(method, "retrieve")
                THEN IF params.t \in {"undef", "null"}
                     THEN \* params.query: TypeError outside any try
                          [r EXCEPT !.pc = "threw"]
                     ELSE [r EXCEPT !.pc = "awaitBackend", !.backendCalls = 1]
                ELSE Json(r, jsonRpc(id, NoResult, methodNotFound(method)))
           /\ seen' = seen \cup {m \in Handshake : isMethod(method, m)}
  /\ UNCHANGED <<oauthVars, req, outbound, relay, parked>>

\* lines 208-220: from the return of the backend to the response
QueryBackendReturn ==
  /\ q.pc = "awaitBackend"
  /\ \E out \in BackendOutcomes :
       IF out.kind = "throws"
       THEN \* the await throws outside any try: the handler's promise rejects
            q' = [q EXCEPT !.pc = "threw"]
       ELSE q' = Json([q EXCEPT !.docs = out.docs],
                      jsonRpc(q.id, Result("documents", documentsOf(out.docs)),
                              NoResult))
  /\ UNCHANGED <<oauthVars, req, outbound, relay, parked, seen>>

(***************************************************************************)
(* Two chat requests in flight.  Every invocation of the handler has its   *)
(* own `req`, `res` and locals; the event loop runs one continuation at a  *)
(* time and may run the other request's continuation at any await.         *)
(***************************************************************************)
NoParked == [req |-> IdleRequest, outbound |-> Undef, relay |-> NoRelay]

\* the event loop turns to the other request
Switch ==
  /\ parked.req.pc # "idle"
  /\ req' = parked.req
  /\ outbound' = parked.outbound
  /\ relay' = parked.relay
  /\ parked' = [req |-> req, outbound |-> outbound, relay |-> relay]
  /\ UNCHANGED <<oauthVars, queryVars>>

(***************************************************************************)
(* Specifications.                                                         *)
(***************************************************************************)
InitAgent ==
  /\ cookies = [oauth_state |-> Undef, github_token |-> Undef]
  /\ cb = IdleCallback
  /\ consumedState = Undef
  /\ req \in {Received("agent", c, h, b) :
                 c \in CookieTokens, h \in HeaderTokens, b \in Bodies}
             \cup {Received("root", Undef, h, b) : h \in HeaderTokens, b \in RootBodies}
  /\ outbound = Undef
  /\ relay = NoRelay
  /\ parked = NoParked
  /\ q = IdleQuery
  /\ seen = {}

NextAgent ==
  \/ AgentStart
  \/ AgentIdentityReturn
  \/ AgentFetchReturn
  \/ RootStart
  \/ RootIdentityReturn
  \/ RootFetchReturn

SpecAgent == InitAgent /\ [][NextAgent]_vars

InitOAuth ==
  /\ cookies = [oauth_state |-> Undef, github_token |-> Undef]
  /\ cb = IdleCallback
  /\ consumedState = Undef
  /\ req = IdleRequest
  /\ outbound = Undef
  /\ relay = NoRelay
  /\ parked = NoParked
  /\ q = IdleQuery
  /\ seen = {}

NextOAuth ==
  \/ BeginLogin
  \/ CallbackStart
  \/ CallbackExchangeReturn

SpecOAuth == InitOAuth /\ [][NextOAuth]_vars

\* bodies of the requests whose relay is followed chunk by chunk
RelayBodies ==
  [messages : {Arr(s) : s \in SeqsUpTo(ClientMessages, 1)} \cup {Num},
   model : {Undef}, config : {Undef}, stream : {Undef}, temperature : {Undef}]

InitRelay ==
  /\ cookies = [oauth_state |-> Undef, github_token |-> Undef]
  /\ cb = IdleCallback
  /\ consumedState = Undef
  /\ req \in {Received(route, Undef, Str(<<"t2">>), b) :
                 route \in {"agent", "root"}, b \in RelayBodies}
  /\ outbound = Undef
  /\ relay = NoRelay
  /\ parked = NoParked
  /\ q = IdleQuery
  /\ seen = {}

NextRelay ==
  \/ AgentStart
  \/ AgentIdentityReturn
  \/ AgentFetchReturn
  \/ RootStart
  \/ RootIdentityReturn
  \/ RootFetchReturn
  \/ UpstreamChunk
  \/ PipeChunk
  \/ UpstreamEnd
  \/ PipeEnd
  \/ UpstreamError
  \/ ClientClose
  \/ PipeOnClose
  \/ PipeOnError

SpecRelay == InitRelay /\ [][NextRelay]_vars

\* the event loop runs a stream callback that is ready
SpecRelayFair ==
  InitRelay /\ [][NextRelay]_vars /\ WF_vars(PipeChunk) /\ WF_vars(PipeEnd)

InitQuery ==
  /\ cookies = [oauth_state |-> Undef, github_token |-> Undef]
  /\ cb = IdleCallback
  /\ consumedState = Undef
  /\ req = IdleRequest
  /\ outbound = Undef
  /\ relay = NoRelay
  /\ parked = NoParked
  /\ q = IdleQuery
  /\ seen = {}

NextQuery ==
  \/ QueryReceive
  \/ QueryBackendReturn

SpecQuery == InitQuery /\ [][NextQuery]_vars

InitConcurrent ==
  /\ cookies = [oauth_state |-> Undef, github_token |-> Undef]
  /\ cb = IdleCallback
  /\ consumedState = Undef
  /\ req \in {Received("agent", Undef, Str(<<"t2">>),
                       [NoBody EXCEPT !.messages = Arr(<<ClientMessage("m1")>>)])}
  /\ outbound = Undef
  /\ relay = NoRelay
  /\ parked \in {[NoParked EXCEPT !.req =
                    Received("agent", Str(<<"t1">>), h,
                             [NoBody EXCEPT !.messages = Arr(<<ClientMessage("m2")>>)])] :
                 h \in HeaderTokens}
  /\ q = IdleQuery
  /\ seen = {}

NextConcurrent ==
  \/ Switch
  \/ AgentStart
  \/ AgentIdentityReturn
  \/ AgentFetchReturn
  \/ UpstreamChunk
  \/ PipeChunk

SpecConcurrent == InitConcurrent /\ [][NextConcurrent]_vars

(***************************************************************************)
(* Claims about the OAuth gateway (checked under SpecOAuth).               *)
(***************************************************************************)
Absent(x) == x.t = "undef"

\* C1: a callback whose `code` is absent, whose `state` is absent, or whose
\* `state` differs from the oauth_state cookie (the cookie may be absent) is
\* answered 400, makes no call to the token endpoint and sets no
\* github_token cookie.
C1_InvalidStateRejected ==
  (cb.pc # "idle" /\ (Absent(cb.code) \/ Absent(cb.state) \/ cb.state # cb.savedState))
    => /\ cb.pc = "done"
       /\ cb.status = 400
       /\ cb.exchangeCalls = 0
       /\ cb.exchange = NoExchange
       /\ cb.setToken = Undef

\* a callback with a code and a state, answered 400 because the state is not
\* the one stored in the cookie
C1_Witness ==
  /\ cb.pc = "done"
  /\ cb.status = 400
  /\ cb.code \in StateTokens
  /\ cb.state \in StateTokens
  /\ cb.savedState \in StateTokens
  /\ cb.state # cb.savedState

\* C2: the state is single-use: once a callback carrying the stored state has
\* been processed, a later callback of the session presenting that state
\* (not issued again since) is answered 400 and makes no token-endpoint call.
C2_StateSingleUse ==
  (cb.pc # "idle" /\ cb.replay)
    => /\ cb.pc = "done"
       /\ cb.status = 400
       /\ cb.exchangeCalls = 0

\* C3: the github_token cookie is set only by a callback whose state matched
\* and whose one token exchange gave a token and no error; a reported error,
\* an omitted token or a failed call gives 500 and no cookie; the token
\* endpoint is called at most once per callback.
C3_TokenOnlyOnSuccessfulExchange ==
  /\ cb.exchangeCalls <= 1
  /\ cb.setToken # Undef
       => /\ cb.pc = "done"
          /\ cb.status = 302
          /\ cb.state = cb.savedState
          /\ cb.exchangeCalls = 1
          /\ cb.exchange.kind = "json"
          /\ cb.exchange.access_token = cb.setToken
          /\ cb.exchange.access_token \in AccessTokens
          /\ cb.exchange.error = Undef
  /\ (cb.pc = "done" /\ cb.exchange.kind = "throws")
       => (cb.status = 500 /\ cb.setToken = Undef)
  /\ (cb.pc = "done" /\ cb.exchange.kind = "json"
        /\ (cb.exchange.error # Undef \/ cb.exchange.access_token = Undef))
       => (cb.status = 500 /\ cb.setToken = Undef)
  /\ cookies.github_token # Undef => cookies.github_token \in AccessTokens

\* the provider reported an error together with a token: 500, no cookie
C3_Witness ==
  /\ cb.pc = "done"
  /\ cb.status = 500
  /\ cb.exchange.kind = "json"
  /\ cb.exchange.error # Undef
  /\ cb.exchange.access_token \in AccessTokens
  /\ cb.setToken = Undef
  /\ cookies.github_token = Undef

(***************************************************************************)
(* Claims about the chat proxy (checked under SpecAgent).                  *)
(***************************************************************************)
Agent == req.route = "agent"
Handled == req.pc # "received"
\* a call to the completion endpoint has been made for the request
Forwarded == req.completionCalls > 0
ClientError(status) == status >= 400 /\ status <= 499

\* C4: a POST /agent request with neither a github_token cookie nor an
\* X-GitHub-Token header is answered 401, with no call to the identity
\* endpoint and none to the completion endpoint.
C4_MissingTokenUnauthorized ==
  (Agent /\ Handled /\ Absent(req.cookie) /\ Absent(req.header))
    => /\ req.pc = "done"
       /\ req.status = 401
       /\ ~req.relayed
       /\ req.identityCalls = 0
       /\ req.completionCalls = 0
       /\ outbound = Undef

C4_Witness ==
  /\ Agent
  /\ req.pc = "done"
  /\ Absent(req.cookie)
  /\ Absent(req.header)
  /\ req.body.messages.t = "arr"
  /\ req.status = 401

\* C5: the completion endpoint is called only after the identity endpoint
\* answered successfully for the request's token; a non-success answer or a
\* transport failure of the identity call gives 401 and no completion call.
C5_IdentityBeforeCompletion ==
  Agent =>
    /\ Forwarded
         => /\ req.identity = "ok"
            /\ req.identityCalls = 1
            /\ req.identityToken = req.bearer
            /\ ~Falsy(req.bearer)
    /\ req.identity \in {"status", "network"}
         => /\ req.pc = "done"
            /\ req.status = 401
            /\ ~req.relayed
            /\ req.completionCalls = 0
            /\ outbound = Undef

\* the identity endpoint answered with a non-success status for a request
\* whose payload is otherwise fine
C5_Witness ==
  /\ Agent
  /\ req.identity = "status"
  /\ req.body.messages.t = "arr"
  /\ req.body.model.t = "undef"
  /\ req.pc = "done"
  /\ req.status = 401

\* C6 as stated: every POST /agent request whose `messages` is not an array
\* is answered 400 and makes no completion call.
C6_NonArrayAnswered400 ==
  (Agent /\ req.pc = "done" /\ req.body.messages.t # "arr")
    => (req.status = 400 /\ req.completionCalls = 0)

\* C6 as amended: a POST /agent request whose `messages` is not an array
\* never reaches the completion endpoint and is answered with a client
\* error: 401 when the token is missing or the identity call failed (both
\* checks come first), 400 otherwise.
C6_NonArrayClientError ==
  (Agent /\ Handled /\ req.body.messages.t # "arr")
    => /\ req.completionCalls = 0
       /\ outbound = Undef
       /\ req.pc \in {"awaitIdentity", "done"}
       /\ req.pc = "done"
            => /\ ~req.relayed
               /\ req.status = IF req.identity = "ok" THEN 400 ELSE 401

\* an authenticated request whose `messages` is an object: 400
C6_Witness ==
  /\ Agent
  /\ req.pc = "done"
  /\ req.identity = "ok"
  /\ req.body.messages.t = "obj"
  /\ req.status = 400

\* C7 as stated: a POST /agent request whose `messages` is an empty array is
\* rejected with a client error and makes no completion call.
C7_EmptyArrayRejected ==
  (Agent /\ Handled /\ req.body.messages = Arr(<<>>))
    => /\ req.completionCalls = 0
       /\ req.pc \in {"awaitIdentity", "done"}
       /\ req.pc = "done" => (~req.relayed /\ ClientError(req.status))

StringOrNullish(x) == x.t \in {"undef", "null", "str"}

\* C7 as amended: an empty `messages` array passes the payload check: the
\* handler never answers it with its own 400, and once the token is present
\* and the identity call succeeded (with `model` and `config.model` strings
\* or absent) the request is forwarded, once, with exactly the three system
\* entries as its messages.
C7_EmptyArrayForwarded ==
  (Agent /\ Handled /\ req.body.messages = Arr(<<>>))
    => /\ ~(req.pc = "done" /\ ~req.relayed /\ req.status = 400)
       /\ (/\ req.identity = "ok"
           /\ StringOrNullish(req.body.model)
           /\ req.body.config.t = "obj" => StringOrNullish(req.body.config.v[1]))
            => /\ req.completionCalls = 1
               /\ outbound.messages.t = "arr"
               /\ Len(outbound.messages.v) = 3
               /\ \A i \in 1..3 : outbound.messages.v[i].role = "system"

C7_Witness ==
  /\ Agent
  /\ req.body.messages = Arr(<<>>)
  /\ req.pc = "done"
  /\ req.relayed
  /\ req.status = 200
  /\ Len(outbound.messages.v) = 3

\* the value of `model` / `config.model` as the client supplied it
Supplied(x) == x.t \notin {"undef", "null"}
ConfigModel == IF req.body.config.t = "obj" THEN req.body.config.v[1] ELSE Undef

\* C8 as stated: the outbound `model` is the body's `model` when supplied,
\* otherwise `config.model` when supplied, otherwise the process default.
C8_ModelByPriority ==
  (Agent /\ Forwarded)
    => outbound.model =
         IF Supplied(req.body.model) THEN req.body.model
         ELSE IF Supplied(ConfigModel) THEN ConfigModel
         ELSE DEFAULT_MODEL

\* a string that still has a character once the blanks around it are cut
NonBlank(x) == x.t = "str" /\ \E i \in 1..Len(x.v) : x.v[i] # " "
\* the string without the blanks before its first and after its last
\* non-blank character
Core(x) ==
  LET idx == {i \in 1..Len(x.v) : x.v[i] # " "}
      lo == CHOOSE i \in idx : \A j \in idx : i <= j
      hi == CHOOSE i \in idx : \A j \in idx : j <= i
  IN  Str(SubSeq(x.v, lo, hi))

\* C8 as amended: the outbound `model` is the body's `model` with the
\* surrounding whitespace cut when it is a string that is not blank,
\* otherwise `config.model` with the surrounding whitespace cut when it is a
\* string that is not blank, otherwise the process default; an empty or
\* blank string counts as not supplied, and a request is forwarded only if
\* its `model` is a string, null or absent.
C8_TrimmedModelByPriority ==
  (Agent /\ Forwarded)
    => /\ StringOrNullish(req.body.model)
       /\ outbound.model =
            IF NonBlank(req.body.model) THEN Core(req.body.model)
            ELSE IF NonBlank(ConfigModel) THEN Core(ConfigModel)
            ELSE DEFAULT_MODEL

\* body model " a " (padded) beside a config model: forwarded as "a"
C8_Witness ==
  /\ Agent
  /\ Forwarded
  /\ req.body.model = Str(<<" ", "a", " ">>)
  /\ NonBlank(ConfigModel)
  /\ outbound.model = Str(<<"a">>)

\* C9: the outbound `messages` are the three system entries in fixed order
\* (handle of the resolved login, domain specialization, project context)
\* followed by the client's messages, unchanged and in order: 3 + n entries.
C9_SystemPromptsPrepended ==
  Forwarded =>
    LET out == outbound.messages
        client == req.body.messages.v
    IN  /\ out.t = "arr"
        /\ Len(out.v) = 3 + Len(client)
        /\ \A i \in 1..3 : out.v[i].role = "system"
        /\ out.v[1].content[2] = req.login
        /\ out.v[1].content[1] =
             IF Agent THEN "Start every response with: @"
             ELSE "Start every response with the user's handle: @"
        /\ out.v[2].content =
             <<"You are an expert assistant specializing in distributed systems and payments processing.">>
        /\ out.v[3].content = <<"Project-specific context:\n", "Project Apollo">>
        /\ \A i \in 1..Len(client) : out.v[3 + i] = client[i]

C9_Witness ==
  /\ Agent
  /\ Forwarded
  /\ req.login = "bob"
  /\ req.body.messages = Arr(<<ClientMessage("m2"), ClientMessage("m1")>>)
  /\ Len(outbound.messages.v) = 5

Range(f) == {f[i] : i \in DOMAIN f}
IsPrefix(a, b) == Len(a) <= Len(b) /\ \A i \in 1..Len(a) : a[i] = b[i]
\* upstream answered the completion call with an HTTP response
UpstreamResponded == req.fetch = "response"
UpstreamHasContentType == \E h \in Range(relay.apiHeaders) : h[1] = "content-type"

\* C11 as stated: whenever upstream returns an HTTP response, the status sent
\* equals upstream's and the header set sent equals upstream's header set,
\* nothing added, also when upstream has no Content-Type.
C11_HeadersEqualUpstream ==
  (Agent /\ UpstreamResponded)
    => /\ req.status = relay.apiStatus
       /\ relay.headers = Range(relay.apiHeaders)

\* C11: whenever upstream returns an HTTP response, the status sent equals
\* upstream's, and the headers the handler sets are upstream's headers, names
\* and values unchanged, plus `content-type: text/event-stream` exactly when
\* upstream has no Content-Type.
C11_HeadersUpstreamPlusDefault ==
  (Agent /\ UpstreamResponded)
    => /\ req.status = relay.apiStatus
       /\ relay.headers =
            Range(relay.apiHeaders)
              \cup (IF UpstreamHasContentType THEN {}
                    ELSE {<<"content-type", "text/event-stream">>})

\* an upstream error response without Content-Type, relayed with the default
C11_Witness ==
  /\ Agent
  /\ UpstreamResponded
  /\ relay.apiStatus = 429
  /\ req.status = 429
  /\ ~UpstreamHasContentType
  /\ <<"content-type", "text/event-stream">> \in relay.headers

\* C12: the chunks delivered to the caller are always a prefix of the chunks
\* received from upstream, and once the upstream stream has completed, either
\* the caller goes away or every chunk gets delivered and the caller's
\* response is ended.
C12_RelayPrefixAndCompletion ==
  /\ [](IsPrefix(relay.sent, relay.received))
  /\ ((relay.up = "ended")
        ~> (relay.caller = "closed"
              \/ (relay.res = "ended" /\ relay.sent = relay.received)))

\* a chunk has reached the caller while the upstream stream is still open and
\* holds a second, different chunk not yet delivered
C12_Witness ==
  /\ relay.up = "open"
  /\ Len(relay.received) = 2
  /\ relay.received[1] # relay.received[2]
  /\ Len(relay.sent) = 1
  /\ relay.caller = "connected"

\* C13: a transport failure of the completion call, before or after the
\* response head, is surfaced as a 500 and leaves no unhandled error; the
\* completion call is made at most once; bytes delivered stay delivered; an
\* HTTP error response of upstream is relayed with upstream's status.
C13_TransportFailureSurfaced ==
  Agent =>
    /\ (req.fetch = "network" \/ relay.up = "errored")
         => (req.pc = "done" /\ req.status = 500 /\ ~relay.uncaught)
    /\ req.completionCalls <= 1
    /\ IsPrefix(relay.sent, relay.received)
    /\ (UpstreamResponded /\ relay.up # "errored") => req.status = relay.apiStatus

\* C14: once the caller has gone (closed connection or forwarding error) and
\* the pipe has run its cleanup, the upstream stream is no longer open.
C14_UpstreamReleasedAfterClose ==
  (Agent /\ relay.caller = "closed" /\ ~relay.piped) => relay.up # "open"

(***************************************************************************)
(* Claims about the tool protocol handler (checked under SpecQuery).       *)
(***************************************************************************)
RecognizedMethods ==
  {Str(<<"initialize">>), Str(<<"notifications/initialized">>),
   Str(<<"tools/list">>), Str(<<"retrieve">>)}
QueryAnswered == q.pc = "done"
IsMethodNotFound(error) == error.t = "error" /\ error.v[1].code = -32601

\* C15: a request whose method is not one of the four recognized ones (or is
\* absent) is answered 200 with an error of code -32601 whose message names
\* the method, the id echoed and no result; a request with a recognized
\* method never gets this error.
C15_UnknownMethodNotFound ==
  /\ (q.pc # "idle" /\ q.method \notin RecognizedMethods)
       => /\ QueryAnswered
          /\ q.status = 200
          /\ q.hasBody
          /\ IsMethodNotFound(q.body.error)
          /\ q.body.error.v[1].message =
               <<"Method not found: ">> \o
                 (IF q.method.t = "undef" THEN <<"undefined">> ELSE q.method.v)
          /\ q.body.id = q.id
          /\ q.body.result = NoResult
          /\ q.backendCalls = 0
  /\ (q.method \in RecognizedMethods) => ~IsMethodNotFound(q.body.error)

\* an array holding the name of a recognized method, with a string id
C15_Witness ==
  /\ QueryAnswered
  /\ q.method = Arr(<<"initialize">>)
  /\ q.id = Str(<<"x">>)
  /\ IsMethodNotFound(q.body.error)

\* C16: every response with a body carries jsonrpc "2.0" and the id of its
\* request; notifications/initialized is answered 204 without a body,
\* whatever its id or params.
C16_IdEchoedAndNotificationsBare ==
  /\ (QueryAnswered /\ q.hasBody)
       => (q.body.jsonrpc = "2.0" /\ q.body.id = q.id)
  /\ (q.pc # "idle" /\ q.method = Str(<<"notifications/initialized">>))
       => /\ QueryAnswered
          /\ q.status = 204
          /\ ~q.hasBody
          /\ q.body = NoJson
          /\ q.responses = 1

\* a retrieve answer carrying a string id, after the backend returned
C16_Witness ==
  /\ QueryAnswered
  /\ q.method = Str(<<"retrieve">>)
  /\ q.hasBody
  /\ q.id = Str(<<"x">>)
  /\ q.body.id = Str(<<"x">>)

\* C17: whatever was handled before and whatever the params, initialize is
\* answered with the fixed protocol version, capability flags (all false) and
\* server identity, and tools/list with exactly one descriptor, the retrieval
\* tool requiring a `query` string.
C17_AnswersIndependentOfHistory ==
  /\ (q.pc # "idle" /\ q.method = Str(<<"initialize">>))
       => /\ QueryAnswered
          /\ q.body.result.t = "initialize"
          /\ LET r == q.body.result.v[1]
             IN  /\ r.protocolVersion = "2025-03-26"
                 /\ r.capabilities.resources = [listChanged |-> FALSE, subscribe |-> FALSE]
                 /\ r.capabilities.prompts = [listChanged |-> FALSE]
                 /\ r.capabilities.tools = [listChanged |-> FALSE]
                 /\ r.serverInfo = [name |-> "zeva-mcp-server", version |-> "1.0.0"]
  /\ (q.pc # "idle" /\ q.method = Str(<<"tools/list">>))
       => /\ QueryAnswered
          /\ q.body.result.t = "tools"
          /\ LET tools == q.body.result.v[1]
             IN  /\ Len(tools) = 1
                 /\ tools[1].id = "retrieve"
                 /\ tools[1].parameters.required = <<"query">>
                 /\ tools[1].parameters.properties.query.type = "string"

\* tools/list answered with its one descriptor before any initialize
C17_Witness ==
  /\ QueryAnswered
  /\ q.method = Str(<<"tools/list">>)
  /\ "initialize" \notin seen
  /\ Len(q.body.result.v[1]) = 1

SuppliedByBackend(x) == x.t \notin {"undef", "null"}
\* the string form of the positions 0..9
PositionNames == <<"0", "1", "2", "3", "4", "5", "6", "7", "8", "9">>

\* C18: the documents of a retrieve answer are as many as the backend's
\* items, in the same order; the document at position i has the item's id and
\* cursor when supplied and the string form of i otherwise, the item's
\* metadata when supplied and {} otherwise, and the item's text.
C18_DocumentMapping ==
  (QueryAnswered /\ q.method = Str(<<"retrieve">>))
    => /\ q.body.result.t = "documents"
       /\ LET documents == q.body.result.v[1]
          IN  /\ Len(documents) = Len(q.docs)
              /\ \A k \in 1..Len(q.docs) :
                   LET d == q.docs[k]
                       position == Str(<<PositionNames[k]>>)
                   IN  /\ documents[k].id = (IF SuppliedByBackend(d.id) THEN d.id ELSE position)
                       /\ documents[k].cursor =
                            (IF SuppliedByBackend(d.cursor) THEN d.cursor ELSE position)
                       /\ documents[k].metadata =
                            (IF SuppliedByBackend(d.metadata) THEN d.metadata
                             ELSE [t |-> "obj", v |-> <<>>])
                       /\ documents[k].text = d.text

\* an item with no id, cursor or metadata at position 2 mapped to "2", "2",
\* {}, next to an item whose empty-string id is kept
C18_Witness ==
  /\ QueryAnswered
  /\ q.method = Str(<<"retrieve">>)
  /\ Len(q.docs) = 3
  /\ q.docs[3].id = Undef /\ q.docs[3].cursor = Undef /\ q.docs[3].metadata = Undef
  /\ q.body.result.v[1][3].id = Str(<<"2">>)
  /\ q.body.result.v[1][3].cursor = Str(<<"2">>)
  /\ q.docs[1].id = Str(<<>>)
  /\ q.body.result.v[1][1].id = Str(<<>>)

(***************************************************************************)
(* Claims about concurrent chat requests (checked under SpecConcurrent).   *)
(***************************************************************************)
InFlight == <<[req |-> req, outbound |-> outbound, relay |-> relay], parked>>
\* the credential a request presented
Presented(r) == IF Falsy(r.cookie) THEN r.header ELSE r.cookie

\* C19: each of the requests in flight is served from its own data: the
\* token validated by the identity endpoint and sent as bearer is the one the
\* request presented, the handle of its first system entry is the login
\* resolved for it, its outbound messages end with its own messages, and the
\* bytes relayed to it are a prefix of its own upstream response.
C19_RequestsIsolated ==
  \A k \in 1..2 :
    LET s == InFlight[k]
    IN  /\ s.req.identityCalls > 0 => s.req.identityToken = Presented(s.req)
        /\ s.req.completionCalls > 0
             => /\ s.req.bearer = Presented(s.req)
                /\ s.outbound.messages.v[1].content =
                     <<"Start every response with: @", s.req.login>>
                /\ SubSeq(s.outbound.messages.v, 4, Len(s.outbound.messages.v))
                     = s.req.body.messages.v
        /\ IsPrefix(s.relay.sent, s.relay.received)

\* both requests relayed at once, with different tokens, logins, messages and
\* upstream bytes
C19_Witness ==
  /\ req.relayed /\ parked.req.relayed
  /\ req.bearer # parked.req.bearer
  /\ req.login # parked.req.login
  /\ outbound.messages # parked.outbound.messages
  /\ relay.sent # <<>> /\ parked.relay.sent # <<>>
  /\ relay.sent[1] # parked.relay.sent[1]

(***************************************************************************)
(* Claim about the response of every request (checked under SpecAgent).    *)
(***************************************************************************)
\* C20: a chat or tool request whose handler has run to its end has received
\* exactly one response.
C20_ExactlyOneResponse ==
  /\ (Agent /\ req.pc \notin {"received", "awaitIdentity", "awaitFetch"})
       => (req.pc = "done" /\ req.status # 0)
  /\ (q.pc \notin {"idle", "awaitBackend"})
       => (q.pc = "done" /\ q.responses = 1)

====
